---- MODULE Spec2Model ----
(***************************************************************************)
(* Model of krbn::hid_manager (src/share/hid_manager.hpp).                 *)
(*                                                                         *)
(* The manager keeps a native IOHIDManager session (manager_), a refresh   *)
(* timer (refresh_timer_) and two maps:                                    *)
(*   registry_entry_ids_ : IOHIDDeviceRef    -> registry_entry_id          *)
(*   hids_               : registry_entry_id -> human_interface_device     *)
(* Every member function is a state transformer on a record holding these  *)
(* fields; the actions apply one member function to the current state.     *)
(* All callbacks, the timer block and start/stop run on the main queue, so *)
(* each of them is one atomic step.                                        *)
(***************************************************************************)
EXTENDS Integers, Sequences, FiniteSets

\* ---- bounds of the model ------------------------------------------------
MaxDevices == 2       \* distinct IOHIDDeviceRef values the OS hands out
MaxIds == 2           \* distinct registry_entry_id values
MaxHids == 2          \* human_interface_device objects ever constructed

NullDevice == 0       \* a null IOHIDDeviceRef
None == 0             \* boost::none / a null pointer / an absent map key
Live == 1             \* a non-null manager_ or refresh_timer_

Devices == 1..MaxDevices
RegistryEntryIds == 1..MaxIds
Hids == 1..MaxHids

VARIABLES
  manager_,             \* None (nullptr) or Live
  refresh_timer_,       \* None (nullptr) or Live
  registry_entry_ids_,  \* [Devices -> RegistryEntryIds \cup {None}]
  hids_,                \* [RegistryEntryIds -> Hids \cup {None}]
  constructed,          \* how many human_interface_device objects were made
  removed,              \* objects on which set_removed() was called
  raised,               \* the signals the latest operation raised, in order
  calls,                \* the sessions and timers the latest operation
                        \*   released and created, in order
  n_detected,           \* per object: the device_detected signals so far
  n_removed,            \* per object: the device_removed signals so far
  stopper,              \* a thread other than the main thread in stop():
                        \*   "idle", or "waiting" for its block to be run
  dangling,             \* tracked objects whose validate() returns false
  run_arrived,          \* history: per identity, whether an accepted arrival
                        \*   came since the identity was last purged
  run_detected,         \* history: per identity, device_detected signals
                        \*   raised since the identity was last purged
  evicted,              \* history: the identities whose object has at some
                        \*   time left hids_
  last                  \* history: the operation that produced this state

vars == <<manager_, refresh_timer_, registry_entry_ids_, hids_, constructed,
          removed, raised, calls, n_detected, n_removed,
          stopper, dangling, run_arrived, run_detected, evicted, last>>

\* ---- the object state as one record ---------------------------------------
\* The state an operation starts from; it has raised and called nothing yet.
Cur ==
  [manager_ |-> manager_, refresh_timer_ |-> refresh_timer_,
   registry_entry_ids_ |-> registry_entry_ids_, hids_ |-> hids_,
   constructed |-> constructed, removed |-> removed, raised |-> <<>>,
   calls |-> <<>>, validated |-> <<>>]

EmptyRegistryEntryIds == [d \in Devices |-> None]
EmptyHids == [r \in RegistryEntryIds |-> None]

\* The objects get_hids() holds.
get_hids(s) == {s.hids_[r] : r \in RegistryEntryIds} \ {None}

\* A signal as its subscriber sees it: the object, its identity, and what
\* the registry looks like at the moment the slot runs.
Signal(kind, hid, rid, s) ==
  [kind |-> kind, hid |-> hid, rid |-> rid,
   present |-> (hid \in get_hids(s)),
   marked |-> (hid \in s.removed),
   mapped |-> (\E d \in Devices : s.registry_entry_ids_[d] = rid)]

\* ---- stop ------------------------------------------------------------------
\* What stop() hands back: the timer it resets, the session it releases.
Released(s) ==
  (IF s.refresh_timer_ # None THEN <<"cancel_timer">> ELSE <<>>)
    \o (IF s.manager_ # None THEN <<"release_session">> ELSE <<>>)

\* A stop() that forgets the two maps.
stop_keeping_maps(s) ==
  [s EXCEPT !.refresh_timer_ = None,
            !.manager_ = None,
            !.calls = @ \o Released(s)]

\* A stop() that leaves the refresh timer running.
stop_keeping_timer(s) ==
  [s EXCEPT !.manager_ = None,
            !.registry_entry_ids_ = EmptyRegistryEntryIds,
            !.hids_ = EmptyHids,
            !.calls = @ \o (IF s.manager_ # None
                              THEN <<"release_session">> ELSE <<>>)]

\* A stop() that releases the session and nothing else.
stop_releasing_only(s) ==
  [s EXCEPT !.manager_ = None,
            !.calls = @ \o (IF s.manager_ # None
                              THEN <<"release_session">> ELSE <<>>)]

stop(s) ==
  [s EXCEPT !.refresh_timer_ = None,
            !.manager_ = None,
            !.registry_entry_ids_ = EmptyRegistryEntryIds,
            !.hids_ = EmptyHids,
            !.calls = @ \o Released(s)]

\* ---- start -----------------------------------------------------------------
\* A start() that does not stop a running manager first.
start_without_stop(s, created) ==
  IF ~created
    THEN [s EXCEPT !.manager_ = None]
    ELSE [s EXCEPT !.manager_ = Live,
                   !.refresh_timer_ = Live,
                   !.calls = @ \o <<"create_session", "create_timer">>]

\* A start() that goes on to create the timer when session creation failed.
start_without_return(s, created) ==
  LET s1 == IF s.manager_ # None THEN stop(s) ELSE s
  IN  [s1 EXCEPT !.manager_ = IF created THEN Live ELSE None,
                 !.refresh_timer_ = Live,
                 !.calls = @ \o (IF created THEN <<"create_session">> ELSE <<>>)
                             \o <<"create_timer">>]

\* created: whether IOHIDManagerCreate returns a session.
start(s, created) ==
  LET s1 == IF s.manager_ # None THEN stop(s) ELSE s
  IN  IF ~created
        THEN [s1 EXCEPT !.manager_ = None]
        ELSE [s1 EXCEPT !.manager_ = Live,
                        !.refresh_timer_ = Live,
                        !.calls = @ \o <<"create_session", "create_timer">>]

\* ---- device_matching_callback ---------------------------------------------
\* A callback that constructs an object for every accepted device, known
\* identity or not.
device_matching_callback_no_skip(s, device, detecting, rid) ==
  IF device = NullDevice \/ ~detecting \/ rid = None THEN s
  ELSE LET hid == s.constructed + 1
           s2 == [s EXCEPT !.registry_entry_ids_[device] = rid,
                           !.hids_[rid] = hid,
                           !.constructed = hid]
       IN  [s2 EXCEPT !.raised =
              Append(@, Signal("device_detected", hid, rid, s2))]

\* A callback that caches the device's identity before it asks the
\* device_detecting slots.
device_matching_callback_caches_first(s, device, detecting, rid) ==
  IF device = NullDevice \/ rid = None THEN s
  ELSE LET s1 == [s EXCEPT !.registry_entry_ids_[device] = rid]
       IN  IF ~detecting \/ s1.hids_[rid] # None THEN s1
           ELSE LET hid == s1.constructed + 1
                    s2 == [s1 EXCEPT !.hids_[rid] = hid,
                                     !.constructed = hid]
                IN  [s2 EXCEPT !.raised =
                       Append(@, Signal("device_detected", hid, rid, s2))]

\* A callback that hands out the object made last instead of a new one.
device_matching_callback_reuses(s, device, detecting, rid) ==
  IF device = NullDevice \/ ~detecting \/ rid = None THEN s
  ELSE LET s1 == [s EXCEPT !.registry_entry_ids_[device] = rid]
       IN  IF s1.hids_[rid] # None THEN s1
           ELSE LET hid == IF s1.constructed = 0 THEN 1 ELSE s1.constructed
                    s2 == [s1 EXCEPT !.hids_[rid] = hid,
                                     !.constructed = hid]
                IN  [s2 EXCEPT !.raised =
                       Append(@, Signal("device_detected", hid, rid, s2))]

\* A callback that caches whatever the OS resolved, an unresolved identity
\* too.
device_matching_callback_caches_none(s, device, detecting, rid) ==
  IF device = NullDevice \/ ~detecting THEN s
  ELSE LET s1 == [s EXCEPT !.registry_entry_ids_[device] = rid]
       IN  IF rid = None \/ s1.hids_[rid] # None THEN s1
           ELSE LET hid == s1.constructed + 1
                    s2 == [s1 EXCEPT !.hids_[rid] = hid,
                                     !.constructed = hid]
                IN  [s2 EXCEPT !.raised =
                       Append(@, Signal("device_detected", hid, rid, s2))]

\* A callback that looks the identity up in hids_ before it caches the
\* device's identity.
device_matching_callback_skips_first(s, device, detecting, rid) ==
  IF device = NullDevice \/ ~detecting \/ rid = None THEN s
  ELSE IF s.hids_[rid] # None THEN s
  ELSE LET hid == s.constructed + 1
           s2 == [s EXCEPT !.registry_entry_ids_[device] = rid,
                           !.hids_[rid] = hid,
                           !.constructed = hid]
       IN  [s2 EXCEPT !.raised =
              Append(@, Signal("device_detected", hid, rid, s2))]

\* detecting: the combined result of the device_detecting slots;
\* rid: what iokit_utility::find_registry_entry_id(device) returns.
\* A callback that raises device_detected before it stores the object.
device_matching_callback_signals_first(s, device, detecting, rid) ==
  IF device = NullDevice THEN s
  ELSE IF ~detecting THEN s
  ELSE IF rid = None THEN s
  ELSE LET s1 == [s EXCEPT !.registry_entry_ids_[device] = rid]
       IN  IF s1.hids_[rid] # None THEN s1
           ELSE LET hid == s1.constructed + 1
                    s2 == [s1 EXCEPT !.raised =
                             Append(@, Signal("device_detected", hid, rid, s1))]
                IN  [s2 EXCEPT !.hids_[rid] = hid,
                               !.constructed = hid]

device_matching_callback(s, device, detecting, rid) ==
  IF device = NullDevice THEN s
  ELSE IF ~detecting THEN s
  ELSE IF rid = None THEN s
  ELSE LET s1 == [s EXCEPT !.registry_entry_ids_[device] = rid]
       IN  IF s1.hids_[rid] # None THEN s1
           ELSE LET hid == s1.constructed + 1
                    s2 == [s1 EXCEPT !.hids_[rid] = hid,
                                     !.constructed = hid]
                IN  [s2 EXCEPT !.raised =
                       Append(@, Signal("device_detected", hid, rid, s2))]

\* ---- find_registry_entry_id (the member, on the cached map) ----------------
\* A lookup that, for a device with no cached identity, answers with an
\* identity that has an object in hids_.
find_registry_entry_id_guesses(s, device) ==
  IF s.registry_entry_ids_[device] # None THEN s.registry_entry_ids_[device]
  ELSE IF \E r \in RegistryEntryIds : s.hids_[r] # None
         THEN CHOOSE r \in RegistryEntryIds : s.hids_[r] # None
         ELSE None

find_registry_entry_id(s, device) == s.registry_entry_ids_[device]

\* ---- device_removal_callback ----------------------------------------------
\* A callback that erases only the cached entry of the device it was given.
device_removal_callback_one_entry(s, device) ==
  IF device = NullDevice THEN s
  ELSE LET rid == s.registry_entry_ids_[device]
       IN  IF rid = None THEN s
           ELSE LET hid == s.hids_[rid]
                    s1 == IF hid = None THEN s
                          ELSE LET e == [s EXCEPT !.hids_[rid] = None,
                                                  !.removed = @ \cup {hid}]
                               IN  [e EXCEPT !.raised =
                                      Append(@, Signal("device_removed", hid, rid, e))]
                IN  [s1 EXCEPT !.registry_entry_ids_[device] = None]

\* A callback that evicts the logical device and leaves the cache alone.
device_removal_callback_keeps_cache(s, device) ==
  IF device = NullDevice THEN s
  ELSE LET rid == s.registry_entry_ids_[device]
       IN  IF rid = None THEN s
           ELSE LET hid == s.hids_[rid]
                IN  IF hid = None THEN s
                    ELSE LET e == [s EXCEPT !.hids_[rid] = None,
                                            !.removed = @ \cup {hid}]
                         IN  [e EXCEPT !.raised =
                                Append(@, Signal("device_removed", hid, rid, e))]

device_removal_callback(s, device) ==
  IF device = NullDevice THEN s
  ELSE LET rid == find_registry_entry_id(s, device)
       IN  IF rid = None THEN s
           ELSE LET hid == s.hids_[rid]
                    s1 == IF hid = None THEN s
                          ELSE LET e == [s EXCEPT !.hids_[rid] = None,
                                                  !.removed = @ \cup {hid}]
                               IN  [e EXCEPT !.raised =
                                      Append(@, Signal("device_removed", hid, rid, e))]
                IN  [s1 EXCEPT !.registry_entry_ids_ =
                       [d \in Devices |-> IF @[d] = rid THEN None ELSE @[d]]]

\* ---- refresh_if_needed -----------------------------------------------------
\* The orders in which a loop over hids_ can visit its keys (the order of an
\* unordered_map is not specified).
Orders(s) ==
  LET keys == {r \in RegistryEntryIds : s.hids_[r] # None}
  IN  {o \in [1..Cardinality(keys) -> keys] :
         \A i, j \in DOMAIN o : i # j => o[i] # o[j]}

\* A loop that validates every object and restarts the session afterwards.
scan_hids_no_break(s, invalid, created, order, i) ==
  LET all == [j \in 1..Len(order) |-> s.hids_[order[j]]]
      s1 == [s EXCEPT !.validated = all]
  IN  IF \E j \in 1..Len(all) : all[j] \in invalid
        THEN start(s1, created)
        ELSE s1

\* The loop of refresh_if_needed from the i-th key on: validate the object,
\* and on the first invalid one call start() and leave the loop.
RECURSIVE scan_hids(_, _, _, _, _)
scan_hids(s, invalid, created, order, i) ==
  IF i > Len(order) THEN s
  ELSE LET hid == s.hids_[order[i]]
           s1 == [s EXCEPT !.validated = Append(@, hid)]
       IN  IF hid \in invalid
             THEN start(s1, created)
             ELSE scan_hids(s1, invalid, created, order, i + 1)

\* A pass that drops the invalid objects from hids_ and keeps the session.
refresh_if_needed_erases(s, invalid, created, order) ==
  [s EXCEPT !.hids_ = [r \in RegistryEntryIds |->
                         IF @[r] \in invalid THEN None ELSE @[r]]]

\* A pass that only logs the invalid object.
refresh_if_needed_logs(s, invalid, created, order) == s

\* invalid: the objects whose validate() returns false;
\* order: the order in which the loop visits the keys of hids_.
refresh_if_needed(s, invalid, created, order) ==
  scan_hids(s, invalid, created, order, 1)

\* ---- the actions -----------------------------------------------------------
\* How many signals of one kind a state's operation raised for an object.
Raised(s, kind, hid) ==
  Cardinality({i \in 1..Len(s.raised) :
                 s.raised[i].kind = kind /\ s.raised[i].hid = hid})

Install(s) ==
  /\ manager_' = s.manager_
  /\ refresh_timer_' = s.refresh_timer_
  /\ registry_entry_ids_' = s.registry_entry_ids_
  /\ hids_' = s.hids_
  /\ constructed' = s.constructed
  /\ removed' = s.removed
  /\ raised' = s.raised
  /\ calls' = s.calls
  /\ n_detected' = IF s.raised = <<>> THEN n_detected
                   ELSE [h \in Hids |->
                           n_detected[h] + Raised(s, "device_detected", h)]
  /\ n_removed' = IF s.raised = <<>> THEN n_removed
                  ELSE [h \in Hids |->
                          n_removed[h] + Raised(s, "device_removed", h)]
  /\ dangling' = dangling \cap get_hids(s)
  /\ evicted' = evicted \cup {r \in RegistryEntryIds :
                                hids_[r] # None /\ s.hids_[r] # hids_[r]}

\* What the history variable records of one operation: its name with its
\* outcome, and one number about the state it started from.
Op(name, n) == [op |-> name, n |-> n]

NoRun == [r \in RegistryEntryIds |-> FALSE]
NoDetected == [r \in RegistryEntryIds |-> 0]

Init ==
  /\ manager_ = None
  /\ refresh_timer_ = None
  /\ registry_entry_ids_ = EmptyRegistryEntryIds
  /\ hids_ = EmptyHids
  /\ constructed = 0
  /\ removed = {}
  /\ raised = <<>>
  /\ calls = <<>>
  /\ n_detected = [h \in Hids |-> 0]
  /\ n_removed = [h \in Hids |-> 0]
  /\ stopper = "idle"
  /\ dangling = {}
  /\ run_arrived = NoRun
  /\ run_detected = NoDetected
  /\ evicted = {}
  /\ last = Op("init", 0)

\* The owner calls start(); IOHIDManagerCreate succeeds or fails.
\* last.n: 1 when a session existed before the call.
Start(created) ==
  /\ \E s \in {start(Cur, created)} : Install(s)
  /\ run_arrived' = NoRun
  /\ run_detected' = NoDetected
  /\ last' = Op(IF created THEN "start" ELSE "start_failed",
                IF manager_ # None THEN 1 ELSE 0)
  /\ stopper' = stopper

\* The owner calls stop().
\* last.n: 1 when the operation before this one was a stop() too.
Stop ==
  /\ \E s \in {stop(Cur)} : Install(s)
  /\ run_arrived' = NoRun
  /\ run_detected' = NoDetected
  /\ last' = Op("stop", IF last.op = "stop" THEN 1 ELSE 0)
  /\ stopper' = stopper

\* The session delivers a matching callback for a device (the static
\* callback's parameter is _Nonnull): the device_detecting slots accept it or
\* not, and the OS resolves its identity or not.
Arrival(device, detecting, rid) ==
  \E s \in {device_matching_callback(Cur, device, detecting, rid)} :
  LET accepted == device # NullDevice /\ detecting /\ rid # None
  IN  /\ manager_ # None
      /\ s.constructed <= MaxHids
      /\ Install(s)
      /\ run_arrived' = IF accepted
                          THEN [run_arrived EXCEPT ![rid] = TRUE]
                          ELSE run_arrived
      /\ run_detected' = IF accepted
                           THEN [run_detected EXCEPT
                                   ![rid] = @ + Len(s.raised)]
                           ELSE run_detected
      /\ last' = Op(IF ~detecting THEN "arrival_rejected"
                    ELSE IF rid = None THEN "arrival_unresolved"
                    ELSE "arrival",
                    0)
      /\ stopper' = stopper

\* The session delivers a removal callback.
\* last.n: how many cached devices carried the identity of this one.
Removal(device) ==
  \E s \in {device_removal_callback(Cur, device)} :
  LET rid == IF device = NullDevice THEN None
             ELSE find_registry_entry_id(Cur, device)
      n == Cardinality({d \in Devices : rid # None /\ registry_entry_ids_[d] = rid})
  IN  /\ manager_ # None
      /\ Install(s)
      /\ run_arrived' = IF rid # None
                          THEN [run_arrived EXCEPT ![rid] = FALSE]
                          ELSE run_arrived
      /\ run_detected' = IF rid # None
                           THEN [run_detected EXCEPT ![rid] = 0]
                           ELSE run_detected
      /\ last' = Op("removal", n)
      /\ stopper' = stopper

\* The refresh timer fires; should the pass restart the session,
\* IOHIDManagerCreate succeeds or fails.
\* last.n: how many tracked devices were dangling.
Tick(created) ==
  LET n == Cardinality({r \in RegistryEntryIds : hids_[r] \in dangling})
  IN  /\ refresh_timer_ # None
      /\ n > 0 \/ created
      /\ last' = Op(IF created THEN "tick" ELSE "tick_failed", n)
      /\ stopper' = stopper
      /\ run_arrived' = IF n > 0 THEN NoRun ELSE run_arrived
      /\ run_detected' = IF n > 0 THEN NoDetected ELSE run_detected
      /\ \E cur \in {Cur} :
         \E order \in Orders(cur) :
         \E s \in {refresh_if_needed(cur, dangling, created, order)} :
           Install(s)

\* A tracked device goes away without (yet) a removal callback: from now on
\* its validate() returns false.
Invalidate(hid) ==
  /\ hid \in get_hids(Cur) \ dangling
  /\ dangling' = dangling \cup {hid}
  /\ last' = Op("invalidate", 0)
  /\ UNCHANGED <<manager_, refresh_timer_, registry_entry_ids_, hids_,
                 constructed, removed, raised, calls,
                 n_detected, n_removed, stopper, run_arrived, run_detected,
                 evicted>>

Next ==
  \/ \E created \in BOOLEAN : Start(created)
  \/ Stop
  \/ \E device \in Devices, detecting \in BOOLEAN,
        rid \in RegistryEntryIds \cup {None} : Arrival(device, detecting, rid)
  \/ \E device \in Devices : Removal(device)
  \/ \E created \in BOOLEAN : Tick(created)
  \/ \E hid \in Hids : Invalidate(hid)

Spec == Init /\ [][Next]_vars

\* The refresh timer is a repeating main-queue timer: while it exists and a
\* pass would change something, a pass eventually runs.
FairSpec == Spec /\ WF_vars(\E created \in BOOLEAN : Tick(created))

\* ---- stop() from another thread ---------------------------------------------
\* gcd_utility::dispatch_sync_in_main_queue: a caller that is not on the main
\* thread hands the block to the main queue and waits; the main queue runs
\* its blocks, the timer's and the run loop's callbacks one at a time.

\* A thread other than the main thread calls stop(): the block is queued and
\* the caller waits; nothing of the manager is touched on that thread.
StopCall ==
  /\ stopper = "idle"
  /\ stopper' = "waiting"
  /\ UNCHANGED <<manager_, refresh_timer_, registry_entry_ids_, hids_,
                 constructed, removed, raised, calls,
                 n_detected, n_removed, dangling, run_arrived, run_detected,
                 evicted, last>>

\* The main queue runs the block of stop(), and the waiting caller returns.
\* last.n: how many objects hids_ held when the block started.
StopBlock ==
  /\ stopper = "waiting"
  /\ \E s \in {stop(Cur)} : Install(s)
  /\ run_arrived' = NoRun
  /\ run_detected' = NoDetected
  /\ last' = Op("stop_sync", Cardinality(get_hids(Cur)))
  /\ stopper' = "idle"

NextMT ==
  \/ Next
  \/ StopCall
  \/ StopBlock

SpecMT == Init /\ [][NextMT]_vars

\* ---- what the claims speak of ---------------------------------------------
Tracked == get_hids(Cur)
Cached(rid) == {d \in Devices : registry_entry_ids_[d] = rid}
Stopped ==
  /\ manager_ = None
  /\ refresh_timer_ = None
  /\ registry_entry_ids_ = EmptyRegistryEntryIds
  /\ hids_ = EmptyHids
RaisedNow(kind, hid) == Raised([raised |-> raised], kind, hid)

\* C1: while arrivals for one identity follow each other with no removal,
\* stop or rebuild in between, exactly one device_detected was raised for the
\* identity and hids_ holds a logical device for it, however many devices
\* arrived; an identity with no such arrival has no signal in its run.
C1_OneDetectedPerIdentity ==
  \A r \in RegistryEntryIds :
    /\ run_arrived[r] => run_detected[r] = 1 /\ hids_[r] # None
    /\ ~run_arrived[r] => run_detected[r] = 0
    /\ Cached(r) # {} => run_arrived[r]

C1_Witness ==
  \E r \in RegistryEntryIds :
    /\ Cardinality(Cached(r)) >= 2
    /\ run_arrived[r]
    /\ run_detected[r] = 1
    /\ hids_[r] # None

\* C2: a removal callback for a device with a cached identity leaves no
\* cached device with that identity, evicts the identity's logical device,
\* raises exactly one device_removed (for that object), and leaves the
\* entries of every other identity as they were.
C2_RemovalPurgesIdentity ==
  [][\A d \in Devices :
       (last'.op = "removal" /\ Removal(d) /\ registry_entry_ids_[d] # None) =>
         LET r == registry_entry_ids_[d]
         IN  /\ \A e \in Devices : registry_entry_ids_'[e] # r
             /\ hids_'[r] = None
             /\ hids_[r] \notin Tracked'
             /\ Len(raised') = 1
             /\ raised'[1].kind = "device_removed"
             /\ raised'[1].hid = hids_[r]
             /\ raised'[1].rid = r
             /\ \A e \in Devices :
                  registry_entry_ids_[e] # r =>
                    registry_entry_ids_'[e] = registry_entry_ids_[e]
             /\ \A q \in RegistryEntryIds \ {r} : hids_'[q] = hids_[q]]_vars

C2_Witness ==
  /\ last.op = "removal"
  /\ last.n >= 2
  /\ Len(raised) = 1
  /\ raised[1].kind = "device_removed"
  /\ Tracked # {}

\* C3: every identity that is a key of hids_ is the value of at least one
\* entry of registry_entry_ids_.
C3_EveryHidHasADevice ==
  \A r \in RegistryEntryIds : hids_[r] # None => Cached(r) # {}

\* C4: whenever a logical device leaves hids_, the operation that evicted it
\* raised exactly one device_removed for it.
C4_EvictionRaisesRemoved ==
  [][\A h \in Hids :
       (h \in Tracked /\ h \notin Tracked') =>
         RaisedNow("device_removed", h)' = 1]_vars

\* C5: a refresh pass that finds a tracked object failing validate() ends
\* with both maps empty, having cancelled the old timer and released the old
\* session; when session creation succeeds it then created a new session and
\* a new timer, which are installed, and otherwise there is neither.
C5_RebuildClearsMaps ==
  [][\A created \in BOOLEAN :
       (last'.op \in {"tick", "tick_failed"} /\ Tick(created)
          /\ Tracked \cap dangling # {}) =>
         /\ registry_entry_ids_' = EmptyRegistryEntryIds
         /\ hids_' = EmptyHids
         /\ created =>
              /\ manager_' # None /\ refresh_timer_' # None
              /\ calls' = <<"cancel_timer", "release_session",
                            "create_session", "create_timer">>
         /\ ~created =>
              /\ manager_' = None /\ refresh_timer_' = None
              /\ calls' = <<"cancel_timer", "release_session">>]_vars

C5_Witness ==
  /\ last.op = "tick"
  /\ last.n >= 1
  /\ manager_ # None
  /\ refresh_timer_ # None
  /\ registry_entry_ids_ = EmptyRegistryEntryIds
  /\ hids_ = EmptyHids
  /\ Len(calls) = 4

\* C6: a tracked object whose validate() returns false is eventually no
\* longer in hids_, given that the refresh timer keeps firing: an object that
\* fails validate() keeps failing it for as long as it is tracked, and
\* whenever such objects are tracked, eventually none of them is.
C6_DanglingEventuallyEvicted ==
  /\ [][\A h \in Hids :
          (h \in Tracked /\ h \in dangling /\ h \in Tracked') =>
            h \in dangling']_vars
  /\ (Tracked \cap dangling # {}) ~> (Tracked \cap dangling = {})

C6_Witness ==
  /\ last.op \in {"tick", "tick_failed"}
  /\ last.n >= 1
  /\ constructed >= 1
  /\ Tracked = {}
  /\ removed = {}

\* C7: start() on a running manager ends in the state stop() followed by
\* start() ends in, having released and created the same sessions and
\* timers: both maps empty, nothing raised, and a session and a timer present
\* when session creation succeeds.
C7_RestartIsStopThenStart ==
  [][\A created \in BOOLEAN :
       (last'.op \in {"start", "start_failed"} /\ Start(created)
          /\ manager_ # None) =>
         LET t == start(stop(Cur), created)
         IN  /\ manager_' = t.manager_
             /\ refresh_timer_' = t.refresh_timer_
             /\ registry_entry_ids_' = t.registry_entry_ids_
             /\ hids_' = t.hids_
             /\ constructed' = t.constructed
             /\ removed' = t.removed
             /\ raised' = t.raised
             /\ calls' = t.calls
             /\ registry_entry_ids_' = EmptyRegistryEntryIds
             /\ hids_' = EmptyHids
             /\ raised' = <<>>
             /\ created => manager_' # None /\ refresh_timer_' # None]_vars

C7_Witness ==
  /\ last.op = "start"
  /\ last.n = 1
  /\ constructed >= 1
  /\ manager_ # None
  /\ refresh_timer_ # None
  /\ hids_ = EmptyHids
  /\ raised = <<>>

\* C8: stop() ends with no session, no timer and both maps empty; a stop()
\* right after a stop() changes nothing and raises nothing.
C8_StopIdempotent ==
  [][(last'.op = "stop" /\ Stop) =>
       /\ Stopped'
       /\ last.op = "stop" =>
            /\ raised' = <<>>
            /\ calls' = <<>>
            /\ UNCHANGED <<manager_, refresh_timer_, registry_entry_ids_,
                           hids_, constructed, removed>>]_vars

C8_Witness ==
  /\ last.op = "stop"
  /\ last.n = 1
  /\ constructed >= 1
  /\ Stopped

\* C9: a matching callback whose device the device_detecting slots reject
\* changes neither map, constructs nothing and raises nothing.
C9_RejectedArrivalChangesNothing ==
  [][\A d \in Devices, r \in RegistryEntryIds \cup {None} :
       (last'.op = "arrival_rejected" /\ Arrival(d, FALSE, r)) =>
         /\ raised' = <<>>
         /\ calls' = <<>>
         /\ UNCHANGED <<manager_, refresh_timer_, registry_entry_ids_,
                        hids_, constructed, removed>>]_vars

C9_Witness ==
  /\ last.op = "arrival_rejected"
  /\ \A d \in Devices : registry_entry_ids_[d] # None
  /\ \A r \in RegistryEntryIds : hids_[r] # None
  /\ raised = <<>>

\* C10: an object that has left hids_ never comes back, and an accepted
\* arrival for an identity with no object in hids_ puts a never-used object
\* there and raises one device_detected for it.
C10_RemovedNeverReused ==
  [][/\ \A h \in Hids :
          (h <= constructed /\ h \notin Tracked) => h \notin Tracked'
     /\ \A d \in Devices, r \in RegistryEntryIds :
          (last'.op = "arrival" /\ Arrival(d, TRUE, r) /\ hids_[r] = None) =>
            /\ hids_'[r] > constructed
            /\ hids_'[r] \notin removed
            /\ Len(raised') = 1
            /\ raised'[1].kind = "device_detected"
            /\ raised'[1].hid = hids_'[r]
            /\ raised'[1].rid = r]_vars

C10_Witness ==
  \E r \in evicted :
    /\ last.op = "arrival"
    /\ hids_[r] = constructed
    /\ constructed >= 2
    /\ Len(raised) = 1
    /\ raised[1].kind = "device_detected"
    /\ raised[1].rid = r

\* C11: an object that a removal callback or a refresh pass evicts from
\* hids_ has had set_removed() called on it by the end of that operation.
C11_EvictedIsMarkedRemoved ==
  [][\A h \in Hids :
       (/\ last'.op \in {"removal", "tick", "tick_failed"}
        /\ h \in Tracked
        /\ h \notin Tracked') => h \in removed']_vars

\* C12: a start() whose session creation fails, called directly or by a
\* refresh pass, on a stopped or on a running manager, ends with no session,
\* no timer, both maps empty and nothing raised; a start() whose session
\* creation succeeds ends with a session and a timer.
C12_FailedStartLeavesStopped ==
  [][/\ (\/ last'.op = "start_failed" /\ Start(FALSE)
         \/ last'.op = "tick_failed" /\ Tick(FALSE)) =>
          (Stopped' /\ raised' = <<>>)
     /\ (last'.op = "start" /\ Start(TRUE)) =>
          /\ manager_' # None
          /\ refresh_timer_' # None
          /\ registry_entry_ids_' = EmptyRegistryEntryIds
          /\ hids_' = EmptyHids]_vars

C12_Witness ==
  /\ last.op = "start_failed"
  /\ last.n = 1
  /\ constructed >= 1
  /\ Stopped
  /\ raised = <<>>

\* C13: a matching callback for an accepted device whose identity the OS
\* does not resolve leaves both maps as they were, constructs nothing and
\* raises nothing.
C13_UnresolvedArrivalChangesNothing ==
  [][\A d \in Devices :
       (last'.op = "arrival_unresolved" /\ Arrival(d, TRUE, None)) =>
         /\ raised' = <<>>
         /\ UNCHANGED <<registry_entry_ids_, hids_, constructed, removed>>]_vars

C13_Witness ==
  /\ last.op = "arrival_unresolved"
  /\ \A d \in Devices : registry_entry_ids_[d] # None
  /\ Tracked # {}
  /\ raised = <<>>

\* C15: an accepted arrival of a device whose identity already has an object
\* in hids_ caches that identity for the device, changes no other cached
\* entry, leaves hids_ as it was and raises nothing; the cached lookup of the
\* device then gives that identity.
C15_KnownIdentityArrivalOnlyCaches ==
  [][\A d \in Devices, r \in RegistryEntryIds :
       (last'.op = "arrival" /\ Arrival(d, TRUE, r) /\ hids_[r] # None) =>
         /\ registry_entry_ids_'[d] = r
         /\ find_registry_entry_id(Cur, d)' = r
         /\ \A e \in Devices \ {d} :
              registry_entry_ids_'[e] = registry_entry_ids_[e]
         /\ hids_' = hids_
         /\ constructed' = constructed
         /\ raised' = <<>>]_vars

C15_Witness ==
  \E r \in RegistryEntryIds :
    /\ last.op = "arrival"
    /\ raised = <<>>
    /\ hids_[r] # None
    /\ Cardinality(Cached(r)) >= 2

\* C16: a removal callback for a device with no cached identity changes
\* neither map and raises nothing, so it does not evict an object that was
\* made for a re-arrived identity.
C16_UncachedRemovalChangesNothing ==
  [][\A d \in Devices :
       (last'.op = "removal" /\ Removal(d) /\ registry_entry_ids_[d] = None) =>
         /\ raised' = <<>>
         /\ UNCHANGED <<registry_entry_ids_, hids_, constructed, removed>>]_vars

C16_Witness ==
  \E r \in evicted :
    /\ last.op = "removal"
    /\ last.n = 0
    /\ hids_[r] # None
    /\ r \in {registry_entry_ids_[d] : d \in Devices}
    /\ \E d \in Devices : registry_entry_ids_[d] = None
    /\ r \in {q \in RegistryEntryIds : hids_[q] = constructed}
    /\ raised = <<>>

\* How often a call occurs among the latest operation's calls.
Called(call) ==
  Cardinality({i \in 1..Len(calls) : calls[i] = call})

\* C17: a refresh pass in which every tracked object passes validate()
\* leaves session, timer and both maps as they were, and raises and calls
\* nothing; a pass in which some object fails restarts the session exactly
\* once, and the first object that failed is the last one it validated,
\* in whichever order the pass visits hids_.
C17_PassRestartsOnceAtFirstInvalid ==
  [][\A created \in BOOLEAN :
       (last'.op \in {"tick", "tick_failed"} /\ Tick(created)) =>
         \A order \in Orders(Cur) :
           LET v == refresh_if_needed(Cur, dangling, created, order).validated
           IN  /\ Tracked \cap dangling = {} =>
                    /\ raised' = <<>>
                    /\ calls' = <<>>
                    /\ {v[i] : i \in 1..Len(v)} = Tracked
                    /\ UNCHANGED <<manager_, refresh_timer_,
                                   registry_entry_ids_, hids_, constructed,
                                   removed>>
               /\ Tracked \cap dangling # {} =>
                    /\ Called("release_session")' = 1
                    /\ Called("cancel_timer")' = 1
                    /\ Called("create_session")' = (IF created THEN 1 ELSE 0)
                    /\ Called("create_timer")' = (IF created THEN 1 ELSE 0)
                    /\ raised' = <<>>
                    /\ Len(v) >= 1
                    /\ v[Len(v)] \in dangling
                    /\ \A i \in 1..(Len(v) - 1) : v[i] \in Tracked \ dangling
                    /\ Len(v) <= Cardinality(Tracked)]_vars

C17_Witness ==
  /\ last.op = "tick"
  /\ last.n >= 1
  /\ constructed >= 2
  /\ evicted # {}
  /\ Called("release_session") = 1
  /\ Called("create_session") = 1
  /\ hids_ = EmptyHids

\* C18: between operations the refresh timer exists exactly when the session
\* exists, and without a session both maps are empty; so from a state with
\* no session the only steps are start() and stop(): no pass of the timer
\* and no callback runs until a start() has succeeded.
C18_TimerIffSession ==
  /\ [](/\ (refresh_timer_ # None) = (manager_ # None)
        /\ manager_ = None => Stopped)
  /\ [][manager_ = None => last'.op \in {"start", "start_failed", "stop"}]_vars

C18_Witness ==
  /\ last.op = "tick_failed"
  /\ last.n >= 1
  /\ constructed >= 1
  /\ Stopped

\* C19: between operations every identity cached for a device in
\* registry_entry_ids_ has a logical device in hids_.
C19_CachedIdentityIsTracked ==
  \A d \in Devices :
    registry_entry_ids_[d] # None => hids_[registry_entry_ids_[d]] # None

C19_Witness ==
  /\ last.op = "removal"
  /\ last.n >= 1
  /\ Len(raised) = 1
  /\ \E d \in Devices : registry_entry_ids_[d] # None

\* C20: a signal is raised after the update it announces. When
\* device_detected is raised the object is in get_hids() under its identity
\* and a device is cached with that identity; when device_removed is raised
\* the object is no longer in get_hids() and is marked removed; and
\* device_removed is raised at most once per object, and only for an object
\* for which device_detected was raised before.
C20_SignalsFollowTheUpdate ==
  /\ \A i \in 1..Len(raised) :
       /\ raised[i].kind = "device_detected" =>
            raised[i].present /\ raised[i].mapped /\ ~raised[i].marked
       /\ raised[i].kind = "device_removed" =>
            ~raised[i].present /\ raised[i].marked
  /\ \A h \in Hids :
       /\ n_removed[h] <= 1
       /\ n_removed[h] <= n_detected[h]
       /\ RaisedNow("device_removed", h) = 1 =>
            RaisedNow("device_detected", h) = 0

C20_Witness ==
  /\ last.op = "removal"
  /\ \E h \in Hids :
       /\ RaisedNow("device_removed", h) = 1
       /\ n_removed[h] = 1
       /\ n_detected[h] = 1
       /\ h \notin Tracked
       /\ h \in removed

\* C14: a stop() called from a thread other than the main thread does its
\* teardown as one step of the main thread. The calling thread changes
\* nothing itself; whatever runs while it waits starts from a state in which
\* the session is there, or from one in which session, timer and both maps
\* are all gone; and the caller returns with the step that leaves the
\* manager stopped.
C14_MarshaledStopIsOneStep ==
  /\ [](manager_ = None =>
          /\ refresh_timer_ = None
          /\ registry_entry_ids_ = EmptyRegistryEntryIds
          /\ hids_ = EmptyHids)
  /\ [][stopper = "idle" /\ stopper' = "waiting" =>
          UNCHANGED <<manager_, refresh_timer_, registry_entry_ids_, hids_,
                      removed, raised>>]_vars
  /\ [][stopper = "waiting" /\ stopper' = "idle" =>
          last'.op = "stop_sync" /\ Stopped']_vars

C14_Witness ==
  /\ last.op = "stop_sync"
  /\ last.n >= 1
  /\ stopper = "idle"
  /\ Stopped

====
